---- MODULE Spec2Model ----
(***************************************************************************)
(* A model of energy-analysis.py: a one-shot batch script that reads a CSV *)
(* of time-stamped power samples, picks the timestamp and the power column *)
(* by substring match on the normalized header, drops incomplete rows,     *)
(* resamples to hourly means and derives peak type, 24 h rolling mean, day *)
(* type, anomaly flag and efficiency score.                                *)
(*                                                                         *)
(* Conventions.  Column names are sequences of one-character strings, so   *)
(* that lower(), strip() and the substring test are computed.  Timestamps  *)
(* are minutes since 2021-01-01T00:00 (a Friday).  Floating-point values   *)
(* are exact rationals in lowest terms plus NaN and the two infinities:    *)
(* the rounding of IEEE doubles is not modelled, their treatment of NaN,   *)
(* of division by zero and of comparisons is.  std_load is kept by its     *)
(* square (the variance): a square root is not rational, and the only use  *)
(* of std_load, the comparison with a deviation, is decided on squares.    *)
(***************************************************************************)
EXTENDS Integers, Sequences, FiniteSets

\* ------------------------------------------------------------------ bounds
\* Most columns of a generated header (schema family of inputs).
MaxCols == 3
\* Most data rows of a generated file (row family of inputs).
MaxRows == 3
\* Hours of a generated long series exceed the rolling window by at most this.
MaxExtraHours == 2

\* ------------------------------------------------------- program constants
MinutesPerHour == 60
Window == 24
QuantileNum == 3
QuantileDen == 4
WeekendStart == 5
Sigmas == 2
Hundred == 100

\* ------------------------------------------------------------- characters
UpperCase ==
  << "A","B","C","D","E","F","G","H","I","J","K","L","M",
     "N","O","P","Q","R","S","T","U","V","W","X","Y","Z" >>
LowerCase ==
  << "a","b","c","d","e","f","g","h","i","j","k","l","m",
     "n","o","p","q","r","s","t","u","v","w","x","y","z" >>

\* str.lower() on one character.
LowerChar(c) ==
  IF \E i \in 1..Len(UpperCase) : UpperCase[i] = c
  THEN LowerCase[CHOOSE i \in 1..Len(UpperCase) : UpperCase[i] = c]
  ELSE c

\* str.lower()
Lower(s) == [i \in 1..Len(s) |-> LowerChar(s[i])]

IsSpace(c) == c \in {" ", "\t"}

\* str.strip(): leading and trailing whitespace removed.
Strip(s) ==
  LET ks == {i \in 1..Len(s) : ~IsSpace(s[i])}
  IN  IF ks = {} THEN << >>
      ELSE LET lo == CHOOSE i \in ks : \A j \in ks : i <= j
               hi == CHOOSE i \in ks : \A j \in ks : j <= i
           IN  SubSeq(s, lo, hi)

\* df.columns.str.lower().str.strip()
NormalizeColumns(header) == [i \in 1..Len(header) |-> Strip(Lower(header[i]))]

\* Python's  sub in s  on strings.
Contains(sub, s) ==
  \E i \in 1..(Len(s) - Len(sub) + 1) : SubSeq(s, i, i + Len(sub) - 1) = sub

W_date == << "d","a","t","e" >>
W_time == << "t","i","m","e" >>
W_power == << "p","o","w","e","r" >>
W_consumption == << "c","o","n","s","u","m","p","t","i","o","n" >>
W_energy == << "e","n","e","r","g","y" >>

\* "date" in c or "time" in c
IsDatetimeName(c) == Contains(W_date, c) \/ Contains(W_time, c)

\* "power" in c or "consumption" in c or "energy" in c
IsPowerName(c) ==
  Contains(W_power, c) \/ Contains(W_consumption, c) \/ Contains(W_energy, c)

\* Faulty variant: the candidates in reverse order, so that the last match is taken.
PowerCandidatesReversed(cols) ==
  LET c == SelectSeq(cols, IsPowerName) IN [i \in 1..Len(c) |-> c[Len(c) + 1 - i]]

\* Faulty variant: the first column as a fallback when no name matches.
PowerCandidatesFallback(cols) ==
  LET c == SelectSeq(cols, IsPowerName)
  IN  IF c = << >> /\ cols # << >> THEN << cols[1] >> ELSE c

\* [c for c in cols if pred(c)]
DatetimeCandidates(cols) == SelectSeq(cols, IsDatetimeName)
PowerCandidates(cols) == SelectSeq(cols, IsPowerName)

\* ----------------------------------------------------------------- floats
Abs(x) == IF x < 0 THEN -x ELSE x

RECURSIVE Gcd(_, _)
Gcd(a, b) == IF b = 0 THEN a ELSE Gcd(b, a % b)

\* The rational n/d (d # 0) in lowest terms with a positive denominator.
Num(n, d) ==
  LET g == Gcd(Abs(n), Abs(d))
      s == IF d < 0 THEN -1 ELSE 1
  IN  [k |-> "num", n |-> s * (n \div g), d |-> s * (d \div g)]

NaN == [k |-> "nan", n |-> 0, d |-> 1]
PosInf == [k |-> "inf", n |-> 1, d |-> 1]
NegInf == [k |-> "inf", n |-> -1, d |-> 1]

IsNum(x) == x.k = "num"
IsNaN(x) == x.k = "nan"
Sign(x) == IF x.n > 0 THEN 1 ELSE IF x.n < 0 THEN -1 ELSE 0

\* IEEE x + y
FAdd(x, y) ==
  IF IsNaN(x) \/ IsNaN(y) THEN NaN
  ELSE IF IsNum(x) /\ IsNum(y) THEN Num(x.n * y.d + y.n * x.d, x.d * y.d)
  ELSE IF IsNum(x) THEN y
  ELSE IF IsNum(y) THEN x
  ELSE IF x = y THEN x ELSE NaN

FNeg(x) == IF IsNum(x) THEN Num(-x.n, x.d) ELSE IF IsNaN(x) THEN NaN
           ELSE IF x = PosInf THEN NegInf ELSE PosInf

\* IEEE x - y
FSub(x, y) == FAdd(x, FNeg(y))

\* IEEE x * y
FMul(x, y) ==
  IF IsNaN(x) \/ IsNaN(y) THEN NaN
  ELSE IF IsNum(x) /\ IsNum(y) THEN Num(x.n * y.n, x.d * y.d)
  ELSE IF Sign(x) * Sign(y) = 0 THEN NaN
  ELSE IF Sign(x) * Sign(y) > 0 THEN PosInf ELSE NegInf

\* IEEE x / y as numpy computes it: x/0 is an infinity, 0/0 is NaN, no error.
FDiv(x, y) ==
  IF IsNaN(x) \/ IsNaN(y) THEN NaN
  ELSE IF IsNum(x) /\ IsNum(y) THEN
         IF y.n # 0 THEN Num(x.n * y.d, x.d * y.n)
         ELSE IF x.n = 0 THEN NaN
         ELSE IF x.n > 0 THEN PosInf ELSE NegInf
  ELSE IF IsNum(y) THEN
         IF Sign(x) * (IF y.n < 0 THEN -1 ELSE 1) > 0 THEN PosInf ELSE NegInf
  ELSE IF IsNum(x) THEN Num(0, 1)
  ELSE NaN

\* IEEE x < y: false when either side is NaN.
FLt(x, y) ==
  /\ ~IsNaN(x) /\ ~IsNaN(y)
  /\ IF IsNum(x) /\ IsNum(y) THEN x.n * y.d < y.n * x.d
     ELSE IF IsNum(x) THEN y = PosInf
     ELSE IF IsNum(y) THEN x = NegInf
     ELSE x = NegInf /\ y = PosInf

FGt(x, y) == FLt(y, x)
\* IEEE x >= y: false when either side is NaN.
FGe(x, y) == ~IsNaN(x) /\ ~IsNaN(y) /\ ~FLt(x, y)
FLe(x, y) == FGe(y, x)

\* The non-NaN entries of a sequence of floats, in order.
DropNaN(xs) == SelectSeq(xs, IsNum)

RECURSIVE SumSeq(_)
SumSeq(xs) == IF xs = << >> THEN Num(0, 1) ELSE FAdd(Head(xs), SumSeq(Tail(xs)))

\* Series.mean(): NaN skipped; NaN for no value.
Mean(xs) ==
  LET v == DropNaN(xs)
  IN  IF v = << >> THEN NaN ELSE FDiv(SumSeq(v), Num(Len(v), 1))

\* Series.max(): NaN skipped; NaN for no value.
Max(xs) ==
  LET v == DropNaN(xs)
  IN  IF v = << >> THEN NaN
      ELSE v[CHOOSE i \in 1..Len(v) : \A j \in 1..Len(v) : FGe(v[i], v[j])]

\* Series.std() squared: the sample variance (ddof = 1) of the non-NaN
\* values; NaN for fewer than two values.
Variance(xs) ==
  LET v == DropNaN(xs)
      m == Mean(v)
      sq == [i \in 1..Len(v) |-> FMul(FSub(v[i], m), FSub(v[i], m))]
  IN  IF Len(v) < 2 THEN NaN ELSE FDiv(SumSeq(sq), Num(Len(v) - 1, 1))

\* Ascending sort of a sequence of numbers (insertion sort).
RECURSIVE Insert(_, _)
Insert(x, s) ==
  IF s = << >> THEN << x >>
  ELSE IF FLe(x, Head(s)) THEN << x >> \o s
  ELSE << Head(s) >> \o Insert(x, Tail(s))

RECURSIVE SortAsc(_)
SortAsc(xs) == IF xs = << >> THEN << >> ELSE Insert(Head(xs), SortAsc(Tail(xs)))

\* Series.quantile(q), q = qn/qd, linear interpolation: with the n non-NaN
\* values sorted, at position q*(n-1) between its two neighbours.
Quantile(xs, qn, qd) ==
  LET v == SortAsc(DropNaN(xs))
      n == Len(v)
      lo == (qn * (n - 1)) \div qd
      fr == Num(qn * (n - 1) - lo * qd, qd)
  IN  IF n = 0 THEN NaN
      ELSE IF lo + 1 >= n THEN v[lo + 1]
      ELSE FAdd(v[lo + 1], FMul(fr, FSub(v[lo + 2], v[lo + 1])))

\* Series.clip(lo, hi): NaN stays NaN.
Clip(x, lo, hi) ==
  IF IsNaN(x) THEN NaN ELSE IF FLt(x, lo) THEN lo ELSE IF FGt(x, hi) THEN hi ELSE x

\* The elements of a finite set of integers as an ascending sequence.
AscSeq(S) ==
  [k \in 1..Cardinality(S) |-> CHOOSE x \in S : Cardinality({y \in S : y < x}) = k - 1]

\* The entries of xs at the positions in S, in order (boolean-mask indexing).
Take(xs, S) == LET idx == AscSeq(S) IN [k \in 1..Len(idx) |-> xs[idx[k]]]

\* ------------------------------------------------------------------ cells
\* A field of the CSV as read_csv delivers it: a timestamp string, a number,
\* some other text, or NaN for an empty field.
TsCell(t) == [k |-> "ts", v |-> t]
NumCell(x) == [k |-> "num", v |-> x]
TextCell == [k |-> "text", v |-> 0]
NaNCell == [k |-> "nan", v |-> 0]

\* pd.to_datetime (errors="raise") raises on a string that is no timestamp.
Unparseable(cell) == cell.k = "text"
\* pd.to_datetime on a timestamp string: minutes since 2021-01-01T00:00.
ToDatetime(cell) == cell.v

\* Faulty variant: what is no number becomes 0 instead of NaN.
ToNumericZero(cell) == IF cell.k = "num" THEN cell ELSE NumCell(0)

\* pd.to_numeric(errors="coerce"): anything that is no number becomes NaN.
ToNumeric(cell) == IF cell.k = "num" THEN cell ELSE NaNCell

\* The position of column c in cols.
ColPos(cols, c) == CHOOSE i \in 1..Len(cols) : cols[i] = c

RemoveAt(s, i) == SubSeq(s, 1, i - 1) \o SubSeq(s, i + 1, Len(s))

\* df.dropna(): the positions of the rows with no NaN in any column.
CompleteRows(rows) ==
  {i \in 1..Len(rows) : \A j \in 1..Len(rows[i]) : rows[i][j].k # "nan"}

\* ------------------------------------------------------------------ state
VARIABLES
  csv_header, csv_rows,
  pc, error,
  df_columns, df_index, df_rows,
  datetime_col, power_col,
  hourly_index, Load,
  peak_threshold, Peak_Type,
  Rolling_24H,
  Day_Type, weekday_weekend_avg,
  mean_load, std_load, Anomaly,
  max_load, Efficiency_Score,
  summary

vars ==
  << csv_header, csv_rows, pc, error, df_columns, df_index, df_rows,
     datetime_col, power_col, hourly_index, Load, peak_threshold, Peak_Type,
     Rolling_24H, Day_Type, weekday_weekend_avg, mean_load, std_load, Anomaly,
     max_load, Efficiency_Score, summary >>

frame_vars == << df_columns, df_index, df_rows, datetime_col, power_col >>
hourly_vars == << hourly_index, Load >>
analytics_vars ==
  << peak_threshold, Peak_Type, Rolling_24H, Day_Type, weekday_weekend_avg,
     mean_load, std_load, Anomaly, max_load, Efficiency_Score >>

\* ----------------------------------------------------------------- inputs
C_DateTime == << "D","a","t","e","T","i","m","e" >>
C_EnergyTime == << " ","E","n","e","r","g","y","_","T","i","m","e"," " >>
C_GlobalActivePower ==
  << "G","l","o","b","a","l","_","a","c","t","i","v","e","_","p","o","w","e","r" >>
C_Consumption == << "C","o","n","s","u","m","p","t","i","o","n" >>
C_Voltage == << "V","o","l","t","a","g","e" >>

\* The columns a generated file may have, each with what it holds: timestamp
\* strings or values.
ColumnPool ==
  { [name |-> C_DateTime, holds |-> "ts"],
    [name |-> C_EnergyTime, holds |-> "ts"],
    [name |-> C_GlobalActivePower, holds |-> "val"],
    [name |-> C_Consumption, holds |-> "val"],
    [name |-> C_Voltage, holds |-> "val"] }

\* Schema family: any header of up to MaxCols distinct columns of the pool over
\* one data row; the timestamp strings are either all valid or all garbage.
SchemaHeaders ==
  UNION { {cs \in [1..m -> ColumnPool] :
             \A i, j \in 1..m : i # j => cs[i] # cs[j]} : m \in 1..MaxCols }

SchemaFile(cs, bad) ==
  [header |-> [i \in 1..Len(cs) |-> cs[i].name],
   rows |-> << [i \in 1..Len(cs) |->
                 IF cs[i].holds = "val" THEN NumCell(10)
                 ELSE IF bad THEN TextCell ELSE TsCell(15)] >>]

SchemaFiles == {SchemaFile(cs, bad) : cs \in SchemaHeaders, bad \in BOOLEAN}

\* Row family: DateTime, Global_active_power, Voltage over up to MaxRows rows
\* in any order.  Either rows of a dirty file (a power that is no number, an
\* empty voltage) or rows of a clean file with zero and negative powers.
RowHeader == << C_DateTime, C_GlobalActivePower, C_Voltage >>
SampleTimes == {15, 45, 130}
DirtyRows ==
  { << TsCell(t), p, NumCell(240) >> :
      t \in SampleTimes, p \in {NumCell(10), NumCell(30), TextCell} }
  \cup { << TsCell(45), NumCell(10), NaNCell >> }
SignedRows ==
  { << TsCell(t), NumCell(x), NumCell(240) >> :
      t \in {15, 75}, x \in {-20, 0, 10} }

RowFiles ==
  UNION { { [header |-> RowHeader, rows |-> rs] :
              rs \in [1..n -> DirtyRows] \cup [1..n -> SignedRows] } :
          n \in 0..MaxRows }

\* Long family: DateTime, Global_active_power with one sample of power 10 in
\* each of n consecutive hours, n around the rolling window, except that the
\* sample of hour p holds x and the sample of the second hour holds y.
LongHeader == << C_DateTime, C_GlobalActivePower >>
LongFile(n, p, x, q, y) ==
  [header |-> LongHeader,
   rows |-> [h \in 1..n |->
              << TsCell((h - 1) * MinutesPerHour + 15),
                 IF h = p THEN x ELSE IF h = q THEN y ELSE NumCell(10) >>]]

LongFiles ==
  UNION { { LongFile(n, p, x, q, y) :
              p \in 1..n, x \in {NumCell(10), NumCell(30), NumCell(0), TextCell},
              q \in {2}, y \in {NumCell(10), TextCell} } :
          n \in (Window - 1)..(Window + MaxExtraHours) }

InputFiles == SchemaFiles \cup RowFiles \cup LongFiles

Init ==
  /\ \E f \in InputFiles : csv_header = f.header /\ csv_rows = f.rows
  /\ pc = "load"
  /\ error = ""
  /\ df_columns = << >> /\ df_index = << >> /\ df_rows = << >>
  /\ datetime_col = << >> /\ power_col = << >>
  /\ hourly_index = << >> /\ Load = << >>
  /\ peak_threshold = NaN /\ Peak_Type = << >>
  /\ Rolling_24H = << >>
  /\ Day_Type = << >> /\ weekday_weekend_avg = << >>
  /\ mean_load = NaN /\ std_load = NaN /\ Anomaly = << >>
  /\ max_load = NaN /\ Efficiency_Score = << >>
  /\ summary = << >>

\* ---------------------------------------------------------------- actions
\* 1. Load Dataset: read_csv, then the column names lowercased and stripped.
LoadDataset ==
  /\ pc = "load"
  /\ df_columns' = NormalizeColumns(csv_header)
  /\ df_rows' = csv_rows
  /\ pc' = "detect_datetime"
  /\ UNCHANGED << csv_header, csv_rows, error, df_index, datetime_col, power_col,
                  hourly_vars, analytics_vars, summary >>

Fail(msg) ==
  /\ pc' = "failed"
  /\ error' = msg

\* 2. Detect Datetime Column: the first candidate is parsed and made the index
\* (set_index takes it out of df.columns).
DetectDatetimeColumn ==
  /\ pc = "detect_datetime"
  /\ LET cands == DatetimeCandidates(df_columns)
     IN  IF cands = << >>
         THEN /\ Fail("No datetime column found in dataset")
              /\ UNCHANGED frame_vars
         ELSE LET c == ColPos(df_columns, cands[1])
              IN  IF \E i \in 1..Len(df_rows) : Unparseable(df_rows[i][c])
                  THEN /\ Fail("to_datetime: ValueError")
                       /\ datetime_col' = cands[1]
                       /\ UNCHANGED << df_columns, df_index, df_rows, power_col >>
                  ELSE /\ datetime_col' = cands[1]
                       /\ df_index' = [i \in 1..Len(df_rows) |-> ToDatetime(df_rows[i][c])]
                       /\ df_columns' = RemoveAt(df_columns, c)
                       /\ df_rows' = [i \in 1..Len(df_rows) |-> RemoveAt(df_rows[i], c)]
                       /\ pc' = "detect_power"
                       /\ UNCHANGED << error, power_col >>
  /\ UNCHANGED << csv_header, csv_rows, hourly_vars, analytics_vars, summary >>

\* 3. Detect Power / Consumption Column: the first candidate among the columns
\* left is coerced to numbers, then every row with any NaN is dropped.
DetectPowerColumn ==
  /\ pc = "detect_power"
  /\ LET cands == PowerCandidates(df_columns)
     IN  IF cands = << >>
         THEN /\ Fail("No power/consumption column found")
              /\ UNCHANGED frame_vars
         ELSE LET c == ColPos(df_columns, cands[1])
                  coerced == [i \in 1..Len(df_rows) |->
                                [df_rows[i] EXCEPT ![c] = ToNumeric(@)]]
                  keep == CompleteRows(coerced)
              IN  /\ power_col' = cands[1]
                  /\ df_rows' = Take(coerced, keep)
                  /\ df_index' = Take(df_index, keep)
                  /\ pc' = "resample"
                  /\ UNCHANGED << error, df_columns, datetime_col >>
  /\ UNCHANGED << csv_header, csv_rows, hourly_vars, analytics_vars, summary >>

\* The calendar hour (hours since 2021-01-01T00:00) a timestamp falls in.
HourOf(t) == t \div MinutesPerHour

\* The power column of the frame as floats.
PowerValues(rows, c) == [i \in 1..Len(rows) |-> Num(rows[i][c].v, 1)]

\* Faulty variant: a bin only for the hours that hold a sample (a group-by, no gaps).
HourlyBinsNoGaps(index) == AscSeq({HourOf(index[i]) : i \in 1..Len(index)})

\* resample("H"): the labels of the bins, one for every hour from the hour of
\* the earliest timestamp to the hour of the latest; none for an empty index.
HourlyBins(index) ==
  IF index = << >> THEN << >>
  ELSE LET hs == {HourOf(index[i]) : i \in 1..Len(index)}
           first == CHOOSE h \in hs : \A g \in hs : h <= g
           last == CHOOSE h \in hs : \A g \in hs : g <= h
       IN  [i \in 1..(last - first + 1) |-> first + i - 1]

\* Faulty variant: the samples nearest to the hour start instead of those within the hour.
BinMembersNearest(index, h) ==
  {i \in 1..Len(index) :
     /\ h * MinutesPerHour - 30 <= index[i]
     /\ index[i] < h * MinutesPerHour + 30}

\* The positions of the samples of the bin labelled h: hour start <= t < next.
BinMembers(index, h) ==
  {i \in 1..Len(index) :
     /\ h * MinutesPerHour <= index[i]
     /\ index[i] < (h + 1) * MinutesPerHour}

\* resample("H").mean(): the mean of each bin, NaN for a bin with no sample.
ResampleMean(index, values) ==
  LET bins == HourlyBins(index)
  IN  [i \in 1..Len(bins) |-> Mean(Take(values, BinMembers(index, bins[i])))]

\* 4. Resample to Hourly Data
ResampleHourly ==
  /\ pc = "resample"
  /\ hourly_index' = HourlyBins(df_index)
  /\ Load' = ResampleMean(df_index,
                          PowerValues(df_rows, ColPos(df_columns, power_col)))
  /\ pc' = "peak"
  /\ UNCHANGED << csv_header, csv_rows, error, frame_vars, analytics_vars, summary >>

\* Faulty variant: a load equal to the threshold is Off-Peak.
PeakTypeStrict(load, threshold) == IF FGt(load, threshold) THEN "Peak" ELSE "Off-Peak"

\* np.where(Load >= peak_threshold, "Peak", "Off-Peak")
PeakType(load, threshold) == IF FGe(load, threshold) THEN "Peak" ELSE "Off-Peak"

\* 5. Peak vs Off-Peak Analysis
PeakAnalysis ==
  /\ pc = "peak"
  /\ LET threshold == Quantile(Load, QuantileNum, QuantileDen)
     IN  /\ peak_threshold' = threshold
         /\ Peak_Type' = [i \in 1..Len(Load) |-> PeakType(Load[i], threshold)]
  /\ pc' = "rolling"
  /\ UNCHANGED << csv_header, csv_rows, error, frame_vars, hourly_vars, Rolling_24H,
                  Day_Type, weekday_weekend_avg, mean_load, std_load, Anomaly,
                  max_load, Efficiency_Score, summary >>

\* Faulty variant: min_periods = 1, the mean of whatever the window holds.
RollingMeanPartial(xs, w, i) ==
  LET win == {j \in 1..Len(xs) : i - w < j /\ j <= i}
  IN  Mean(Take(xs, win))

\* rolling(w).mean() at position i: the window is the last w positions up to
\* i; with fewer than min_periods = w non-NaN observations in it the result is
\* NaN, else the mean of the observations.
RollingMean(xs, w, i) ==
  LET win == {j \in 1..Len(xs) : i - w < j /\ j <= i}
      obs == {j \in win : IsNum(xs[j])}
  IN  IF Cardinality(obs) < w THEN NaN ELSE Mean(Take(xs, obs))

\* 6. Rolling Average Trend
RollingAverage ==
  /\ pc = "rolling"
  /\ Rolling_24H' = [i \in 1..Len(Load) |-> RollingMean(Load, Window, i)]
  /\ pc' = "day_type"
  /\ UNCHANGED << csv_header, csv_rows, error, frame_vars, hourly_vars, peak_threshold,
                  Peak_Type, Day_Type, weekday_weekend_avg, mean_load, std_load,
                  Anomaly, max_load, Efficiency_Score, summary >>

\* index.dayofweek (Monday = 0) of an hour; hour 0 lies on a Friday.
DayOfWeek(h) == ((h \div 24) + 4) % 7

\* np.where(index.dayofweek < 5, "Weekday", "Weekend")
DayType(h) == IF DayOfWeek(h) < WeekendStart THEN "Weekday" ELSE "Weekend"

\* groupby("Day_Type")["Load"].mean(): one mean for each day type present.
GroupMeans(types, loads) ==
  [t \in {types[i] : i \in 1..Len(types)} |->
     Mean(Take(loads, {i \in 1..Len(types) : types[i] = t}))]

\* 7. Weekday vs Weekend
WeekdayWeekend ==
  /\ pc = "day_type"
  /\ LET types == [i \in 1..Len(hourly_index) |-> DayType(hourly_index[i])]
     IN  /\ Day_Type' = types
         /\ weekday_weekend_avg' = GroupMeans(types, Load)
  /\ pc' = "anomaly"
  /\ UNCHANGED << csv_header, csv_rows, error, frame_vars, hourly_vars, peak_threshold,
                  Peak_Type, Rolling_24H, mean_load, std_load, Anomaly, max_load,
                  Efficiency_Score, summary >>

\* dev > Sigmas * std, with std given by its square: false when either is NaN.
ExceedsSigmas(dev, stdsq) ==
  /\ FGt(dev, Num(0, 1))
  /\ FGt(FMul(dev, dev), FMul(Num(Sigmas * Sigmas, 1), stdsq))

\* Faulty variant: only the loads above the mean are flagged.
IsAnomalyAboveOnly(load, mean, stdsq) == ExceedsSigmas(FSub(load, mean), stdsq)

\* (Load > mean_load + 2 * std_load) | (Load < mean_load - 2 * std_load)
IsAnomaly(load, mean, stdsq) ==
  \/ ExceedsSigmas(FSub(load, mean), stdsq)
  \/ ExceedsSigmas(FSub(mean, load), stdsq)

\* 8. Anomaly Detection
AnomalyDetection ==
  /\ pc = "anomaly"
  /\ LET mean == Mean(Load)
         stdsq == Variance(Load)
     IN  /\ mean_load' = mean
         /\ std_load' = stdsq
         /\ Anomaly' = [i \in 1..Len(Load) |->
                          IF IsAnomaly(Load[i], mean, stdsq) THEN 1 ELSE 0]
  /\ pc' = "efficiency"
  /\ UNCHANGED << csv_header, csv_rows, error, frame_vars, hourly_vars, peak_threshold,
                  Peak_Type, Rolling_24H, Day_Type, weekday_weekend_avg, max_load,
                  Efficiency_Score, summary >>

\* (100 - (Load / max_load * 100)).clip(0, 100)
EfficiencyOf(load, max) ==
  Clip(FSub(Num(Hundred, 1), FMul(FDiv(load, max), Num(Hundred, 1))),
       Num(0, 1), Num(Hundred, 1))

\* 9. Energy Efficiency Score
EfficiencyScore ==
  /\ pc = "efficiency"
  /\ LET max == Max(Load)
     IN  /\ max_load' = max
         /\ Efficiency_Score' = [i \in 1..Len(Load) |-> EfficiencyOf(Load[i], max)]
  /\ pc' = "visualize"
  /\ UNCHANGED << csv_header, csv_rows, error, frame_vars, hourly_vars, peak_threshold,
                  Peak_Type, Rolling_24H, Day_Type, weekday_weekend_avg, mean_load,
                  std_load, Anomaly, summary >>

\* 10. Visualizations: the three figures read the table and change nothing.
\* The plotting library may reject a table with no row (nothing to draw); the
\* script then ends there.
Visualizations ==
  /\ pc = "visualize"
  /\ \/ pc' = "summary" /\ UNCHANGED error
     \/ Load = << >> /\ Fail("plot: no data")
  /\ UNCHANGED << csv_header, csv_rows, frame_vars, hourly_vars, analytics_vars,
                  summary >>

RECURSIVE SumInts(_)
SumInts(xs) == IF xs = << >> THEN 0 ELSE Head(xs) + SumInts(Tail(xs))

\* 11. Results Summary: the three printed values.
ResultsSummary ==
  /\ pc = "summary"
  /\ summary' = << [threshold |-> peak_threshold,
                    anomalies |-> SumInts(Anomaly),
                    efficiency |-> Mean(Efficiency_Score)] >>
  /\ pc' = "done"
  /\ UNCHANGED << csv_header, csv_rows, error, frame_vars, hourly_vars, analytics_vars >>

Next ==
  \/ LoadDataset
  \/ DetectDatetimeColumn
  \/ DetectPowerColumn
  \/ ResampleHourly
  \/ PeakAnalysis
  \/ RollingAverage
  \/ WeekdayWeekend
  \/ AnomalyDetection
  \/ EfficiencyScore
  \/ Visualizations
  \/ ResultsSummary

Spec == Init /\ [][Next]_vars

\* ================================================================= claims
\* The steps of the script in order; a failed run stays at the step that failed.
Steps ==
  << "load", "detect_datetime", "detect_power", "resample", "peak", "rolling",
     "day_type", "anomaly", "efficiency", "visualize", "summary", "done" >>

StepNo(s) == CHOOSE i \in 1..Len(Steps) : Steps[i] = s

NoDatetimeError == "No datetime column found in dataset"
NoPowerError == "No power/consumption column found"
SchemaErrors == {NoDatetimeError, NoPowerError}

FailedAt ==
  IF error = NoDatetimeError \/ error = "to_datetime: ValueError" THEN "detect_datetime"
  ELSE IF error = NoPowerError THEN "detect_power"
  ELSE "visualize"

\* The step s has run to its end in this run.
Completed(s) == StepNo(IF pc = "failed" THEN FailedAt ELSE pc) > StepNo(s)

\* The step s has run in this run, to its end or to a failure.
Ran(s) == IF pc = "failed" THEN StepNo(FailedAt) >= StepNo(s) ELSE StepNo(pc) > StepNo(s)

RECURSIVE SumOver(_, _)
\* The sum of xs[i] over the positions i in S, xs a sequence of floats.
SumOver(S, xs) ==
  IF S = {} THEN Num(0, 1)
  ELSE LET i == CHOOSE i \in S : TRUE IN FAdd(xs[i], SumOver(S \ {i}, xs))

\* The cleaned samples: timestamp and power of the rows of the frame.
CleanPower == [j \in 1..Len(df_rows) |-> Num(df_rows[j][ColPos(df_columns, power_col)].v, 1)]

SamplesIn(h) ==
  {j \in 1..Len(df_index) :
     h * MinutesPerHour <= df_index[j] /\ df_index[j] < h * MinutesPerHour + MinutesPerHour}

\* C1: every defined hourly load is the arithmetic mean of exactly the cleaned
\* samples whose timestamp t has hourStart <= t < hourStart + 1h; every sample
\* lies in exactly one record's hour; samples (00:15, 10), (00:45, 30) give
\* load 20 for the 00:00 record.
C1_LoadIsHourMean ==
  Completed("resample") =>
    /\ Len(Load) = Len(hourly_index)
    /\ \A i \in 1..Len(Load) :
         IsNum(Load[i]) =>
           LET S == SamplesIn(hourly_index[i])
           IN  /\ S # {}
               /\ FMul(Load[i], Num(Cardinality(S), 1)) = SumOver(S, CleanPower)
    /\ \A j \in 1..Len(df_index) :
         Cardinality({i \in 1..Len(Load) :
                        /\ hourly_index[i] * MinutesPerHour <= df_index[j]
                        /\ df_index[j] < (hourly_index[i] + 1) * MinutesPerHour}) = 1
    /\ csv_rows = << << TsCell(15), NumCell(10), NumCell(240) >>,
                     << TsCell(45), NumCell(30), NumCell(240) >> >>
         => hourly_index = << 0 >> /\ Load = << Num(20, 1) >>

\* An hour holding two samples with different powers has been averaged.
C1_Witness ==
  /\ pc = "done"
  /\ \E i \in 1..Len(Load) :
       /\ IsNum(Load[i])
       /\ \E a, b \in SamplesIn(hourly_index[i]) : CleanPower[a] # CleanPower[b]
  /\ \E i \in 1..Len(Load) : IsNaN(Load[i])

\* The hours of the cleaned samples.
CleanHours == {df_index[j] \div MinutesPerHour : j \in 1..Len(df_index)}

\* C2: the hourly table has exactly one record for every calendar hour from
\* the hour of the earliest cleaned timestamp to the hour of the latest, in
\* ascending order, and none outside; an hour with no sample is present with
\* a missing load.
C2_OneRecordPerHour ==
  Completed("resample") =>
    /\ Len(Load) = Len(hourly_index)
    /\ \A a, b \in CleanHours : \A h \in a..b :
         Cardinality({i \in 1..Len(hourly_index) : hourly_index[i] = h}) = 1
    /\ \A i \in 1..Len(hourly_index) :
         \E a, b \in CleanHours : a <= hourly_index[i] /\ hourly_index[i] <= b
    /\ \A i \in 1..(Len(hourly_index) - 1) : hourly_index[i] < hourly_index[i + 1]
    /\ \A i \in 1..Len(hourly_index) :
         hourly_index[i] \notin CleanHours <=> IsNaN(Load[i])

\* A finished table with an hour that has no sample between two that have.
C2_Witness ==
  /\ pc = "done"
  /\ \E i \in 2..(Len(Load) - 1) :
       /\ IsNaN(Load[i])
       /\ hourly_index[i] \notin CleanHours
       /\ IsNum(Load[i - 1]) /\ IsNum(Load[i + 1])

\* The normalized header of the file, computed by hand for the pool's names.
Header == [i \in 1..Len(csv_header) |-> Strip(Lower(csv_header[i]))]

\* The first position of names whose name satisfies Match, 0 if there is none.
FirstMatch(names, Match(_)) ==
  IF \E i \in 1..Len(names) : Match(names[i])
  THEN CHOOSE i \in 1..Len(names) :
         Match(names[i]) /\ \A j \in 1..(i - 1) : ~Match(names[j])
  ELSE 0

HasDatetimeWord(c) == Contains(W_date, c) \/ Contains(W_time, c)
HasPowerWord(c) ==
  Contains(W_power, c) \/ Contains(W_consumption, c) \/ Contains(W_energy, c)

\* The position of the first datetime-like name of the header, 0 for none.
TsPosIn(hd) == FirstMatch(hd, HasDatetimeWord)
\* The position of the first power-like name of the full header, whatever the
\* timestamp field; 0 for none.
IndependentPowerPosIn(hd) == FirstMatch(hd, HasPowerWord)
\* The position of the first power-like name of the header other than the
\* timestamp field at position ts; 0 for none.
PowerPosIn(hd, ts) ==
  IF ts = 0 THEN 0
  ELSE LET tsname == hd[ts]
           IsOtherPowerName(c) == HasPowerWord(c) /\ c # tsname
       IN  FirstMatch(hd, IsOtherPowerName)

TsPos == TsPosIn(Header)
IndependentPowerPos == IndependentPowerPosIn(Header)
PowerPos == LET hd == Header IN PowerPosIn(hd, TsPosIn(hd))

L_datetime == << "d","a","t","e","t","i","m","e" >>
L_global_active_power ==
  << "g","l","o","b","a","l","_","a","c","t","i","v","e","_","p","o","w","e","r" >>

NothingAggregated ==
  /\ hourly_index = << >> /\ Load = << >>
  /\ peak_threshold = NaN /\ Peak_Type = << >> /\ Rolling_24H = << >>
  /\ Day_Type = << >> /\ weekday_weekend_avg = << >>
  /\ mean_load = NaN /\ std_load = NaN /\ Anomaly = << >>
  /\ max_load = NaN /\ Efficiency_Score = << >>
  /\ summary = << >>

\* C4 as stated: a header with no datetime-like name, or with no power-like
\* name, ends the run in a schema error, and a run that ends in a schema error
\* has done no cleaning (no timestamp parsed or made the index), no
\* aggregation, no analytics and no report.
C4_SchemaErrorBeforeCleaning ==
  /\ (pc \in {"failed", "done"} /\ (TsPos = 0 \/ IndependentPowerPos = 0))
       => error \in SchemaErrors
  /\ (pc = "failed" /\ error \in SchemaErrors)
       => /\ df_index = << >> /\ df_columns = Header /\ df_rows = csv_rows
          /\ power_col = << >>
          /\ NothingAggregated

\* C4 amended: with no datetime-like name the run fails at once with "No
\* datetime column found in dataset" and nothing parsed; with a timestamp field
\* and no power-like name among the other fields, the timestamp column is
\* parsed and made the index first (a string that is no timestamp fails the
\* run there with a parse error), then the run fails with "No
\* power/consumption column found"; in every run that ends in either error no
\* column is substituted, no value is coerced, no row is dropped, and no
\* aggregation, analytics or report happens.
C4_SchemaErrorAborts ==
  /\ (Ran("detect_datetime") /\ pc \in {"detect_power", "failed"}) =>
       LET hd == Header
           ts == TsPosIn(hd)
           pw == PowerPosIn(hd, ts)
       IN  /\ ts = 0 =>
                /\ pc = "failed" /\ error = NoDatetimeError
                /\ datetime_col = << >> /\ df_index = << >>
                /\ df_columns = hd /\ df_rows = csv_rows
           /\ (ts # 0 /\ pw = 0) =>
                IF \E i \in 1..Len(csv_rows) : csv_rows[i][ts].k = "text"
                THEN pc = "failed" /\ error = "to_datetime: ValueError" /\ df_index = << >>
                ELSE /\ df_index = [i \in 1..Len(csv_rows) |-> csv_rows[i][ts].v]
                     /\ pc = "failed" => error = NoPowerError
           /\ (pc = "failed" /\ error \in SchemaErrors) =>
                /\ ts = 0 \/ pw = 0
                /\ power_col = << >>
                /\ Len(df_rows) = Len(csv_rows)
                /\ \A i \in 1..Len(df_rows) : \A j \in 1..Len(df_rows[i]) :
                     \E m \in 1..Len(csv_rows[i]) : df_rows[i][j] = csv_rows[i][m]
                /\ NothingAggregated
  /\ (Ran("detect_power") /\ pc # "failed") => PowerPos # 0

\* A run that parsed its timestamps and then failed for want of a power column
\* although other columns were there.
C4_Witness ==
  /\ pc = "failed" /\ error = NoPowerError
  /\ df_index # << >>
  /\ df_columns # << >>

\* The (timestamp, power) pairs of the rows of the file that satisfy Keeps, in
\* file order; ts and pw are the positions of the two fields in the header.
Kept(ts, pw, Keeps(_)) ==
  LET rs == SelectSeq(csv_rows, Keeps)
  IN  [i \in 1..Len(rs) |-> << rs[i][ts].v, rs[i][pw] >>]

\* The (timestamp, power) pairs of the frame.
FramePairs ==
  LET c == ColPos(df_columns, power_col)
  IN  [i \in 1..Len(df_rows) |-> << df_index[i], df_rows[i][c] >>]

\* C6 as stated: the rows that survive cleaning are exactly the rows whose
\* power value is numeric, whatever their other fields hold, each with its
\* timestamp and power unchanged.
C6_DroppedIffPowerMissing ==
  Completed("detect_power") =>
    LET hd == Header
        ts == TsPosIn(hd)
        pw == PowerPosIn(hd, ts)
        NumericPower(r) == r[pw].k = "num"
    IN  FramePairs = Kept(ts, pw, NumericPower)

\* C6 amended: a row is dropped if and only if, after the power field is
\* coerced, the row has a missing value in the power field or in any other
\* field that is not the timestamp; every other row survives, in file order,
\* with its timestamp and power value unchanged.
C6_DroppedIffAnyMissing ==
  Completed("detect_power") =>
    LET hd == Header
        ts == TsPosIn(hd)
        pw == PowerPosIn(hd, ts)
        Complete(r) ==
          /\ r[pw].k = "num"
          /\ \A j \in 1..Len(r) : (j # ts /\ j # pw) => r[j].k # "nan"
    IN  /\ FramePairs = Kept(ts, pw, Complete)
        /\ \A i \in 1..Len(df_rows) : Len(df_rows[i]) = Len(hd) - 1

\* A cleaning that kept a row, dropped a row for its non-numeric power and
\* dropped a row with a numeric power for an empty other field.
C6_Witness ==
  /\ pc = "resample"
  /\ df_rows # << >>
  /\ csv_header = RowHeader
  /\ \E i \in 1..Len(csv_rows) : csv_rows[i][2].k = "text"
  /\ \E i \in 1..Len(csv_rows) : csv_rows[i][2].k = "num" /\ csv_rows[i][3].k = "nan"
  /\ Len(df_rows) = 1

\* C7: rolling_24h of the record at 0-based index i is undefined if i < 23 or
\* any of load[i-23..i] is missing, and otherwise is the arithmetic mean of
\* exactly those 24 loads.
C7_RollingTrailingMean ==
  Completed("rolling") =>
    /\ Len(Rolling_24H) = Len(Load)
    /\ \A k \in 1..Len(Load) :
         LET i == k - 1
             window == {j + 1 : j \in (i - 23)..i}
         IN  IF i < 23 \/ \E j \in window : IsNaN(Load[j])
             THEN IsNaN(Rolling_24H[k])
             ELSE /\ IsNum(Rolling_24H[k])
                  /\ FMul(Rolling_24H[k], Num(24, 1)) = SumOver(window, Load)

\* A table with a defined rolling value over loads that are not all equal, and
\* a record past the 23rd whose window holds a missing load.
C7_Witness ==
  /\ pc = "done"
  /\ \E k \in 1..Len(Load) :
       /\ IsNum(Rolling_24H[k])
       /\ \E j \in 1..k : k - j < 24 /\ Load[j] # Load[k]
  /\ \E k \in 24..Len(Load) : IsNaN(Rolling_24H[k]) /\ IsNum(Load[k])

\* The positions of the records with a defined load.
DefinedLoads == {i \in 1..Len(Load) : IsNum(Load[i])}

\* The squares of the loads.
LoadSquares == [i \in 1..Len(Load) |-> FMul(Load[i], Load[i])]

\* C8: mean_load and std_load are those of exactly the non-missing loads of the
\* table; a record with a defined load has anomaly 1 iff |load - mean_load| >
\* 2 * std_load (on squares: (load - mean_load)^2 > 4 * std_load^2, false when
\* std_load is undefined); a record with a missing load has anomaly 0.
C8_AnomalyIffBeyondTwoSigma ==
  Completed("anomaly") =>
    LET D == DefinedLoads
        n == Cardinality(D)
        sum == SumOver(D, Load)
        sumsq == SumOver(D, LoadSquares)
    IN  /\ Len(Anomaly) = Len(Load)
        /\ IF n = 0 THEN IsNaN(mean_load)
           ELSE FMul(mean_load, Num(n, 1)) = sum
        /\ IF n < 2 THEN IsNaN(std_load)
           ELSE FMul(std_load, Num(n * (n - 1), 1))
                  = FSub(FMul(Num(n, 1), sumsq), FMul(sum, sum))
        /\ \A i \in 1..Len(Load) :
             /\ Anomaly[i] \in {0, 1}
             /\ IsNaN(Load[i]) => Anomaly[i] = 0
             /\ IsNum(Load[i]) =>
                  LET dev == FSub(Load[i], mean_load)
                  IN  Anomaly[i] = 1 <=>
                        FGt(FMul(dev, dev), FMul(Num(4, 1), std_load))

\* A finished table with a load flagged above the mean or below it, loads that
\* are not flagged, and a missing load.
C8_Witness ==
  /\ pc = "done"
  /\ \E i \in 1..Len(Load) : Anomaly[i] = 1
  /\ \E i \in 1..Len(Load) : Anomaly[i] = 0 /\ IsNum(Load[i])
  /\ \E i \in 1..Len(Load) : IsNaN(Load[i])

\* C5 as stated: a run whose cleaning leaves no row, whose loads are all
\* missing or whose max_load is zero never reaches the report with a table of
\* no row or with a missing or infinite threshold or efficiency, and never
\* divides by a zero or missing max_load: it has failed before.
C5_DegenerateInputFails ==
  /\ pc \in {"visualize", "summary", "done"} =>
       /\ Load # << >>
       /\ DefinedLoads # {}
       /\ IsNum(peak_threshold)
       /\ IsNum(max_load) /\ max_load.n # 0
       /\ \A i \in 1..Len(Load) : IsNum(Load[i]) => IsNum(Efficiency_Score[i])
  /\ pc = "done" =>
       IsNum(summary[1].threshold) /\ IsNum(summary[1].efficiency)

\* C9 as stated: every record's efficiency_score is a number in [0, 100],
\* equal to 100 - load/max_load*100 clamped, and of two records the one with
\* the smaller load has the score that is not smaller.
C9_ScoreClampedMonotone ==
  Completed("efficiency") =>
    /\ Len(Efficiency_Score) = Len(Load)
    /\ \A i \in 1..Len(Load) :
         /\ IsNum(Efficiency_Score[i])
         /\ FGe(Efficiency_Score[i], Num(0, 1))
         /\ FLe(Efficiency_Score[i], Num(100, 1))
    /\ \A a, b \in DefinedLoads :
         FLe(Load[a], Load[b]) => FGe(Efficiency_Score[a], Efficiency_Score[b])

RECURSIVE SumFn(_, _)
\* The sum of the integers f[x] over x in S.
SumFn(f, S) ==
  IF S = {} THEN 0 ELSE LET x == CHOOSE x \in S : TRUE IN f[x] + SumFn(f, S \ {x})

\* The hourly means as a function of the bag of the file's complete rows: for
\* each hour holding a sample, the sum of its samples' powers by their count.
\* Nothing here reads the position of a row in the file.
BagLoads ==
  LET hd == Header
      ts == TsPosIn(hd)
      pw == PowerPosIn(hd, ts)
      Complete(r) ==
        /\ r[pw].k = "num"
        /\ \A j \in 1..Len(r) : (j # ts /\ j # pw) => r[j].k # "nan"
      pairs == Kept(ts, pw, Complete)
      support == {pairs[i] : i \in 1..Len(pairs)}
      count == [s \in support |-> Cardinality({i \in 1..Len(pairs) : pairs[i] = s})]
      weight == [s \in support |-> count[s] * s[2].v]
      hours == {s[1] \div MinutesPerHour : s \in support}
      in(h) == {s \in support : s[1] \div MinutesPerHour = h}
  IN  [h \in hours |-> Num(SumFn(weight, in(h)), SumFn(count, in(h)))]

\* The k-th smallest value of a bag of numbers given as a function.
KthSmallest(f, k) ==
  LET v == CHOOSE v \in {f[x] : x \in DOMAIN f} :
             /\ Cardinality({x \in DOMAIN f : FLt(f[x], v)}) < k
             /\ Cardinality({x \in DOMAIN f : FLe(f[x], v)}) >= k
  IN  v

\* The 75th percentile of a bag of numbers, by linear interpolation between
\* the order statistics around rank 1 + 3(n-1)/4; NaN for the empty bag.
Percentile75(f) ==
  LET n == Cardinality(DOMAIN f)
      r == 3 * (n - 1)
      below == KthSmallest(f, (r \div 4) + 1)
      above == KthSmallest(f, (r \div 4) + 2)
  IN  IF n = 0 THEN NaN
      ELSE IF r % 4 = 0 THEN below
      ELSE FAdd(below, FMul(Num(r % 4, 4), FSub(above, below)))

\* C10: peak_threshold is the 75th percentile of the non-missing hourly loads,
\* a function of the bag of input rows and not of their order; every record
\* is Peak or Off-Peak, Peak exactly when its load is defined and at least
\* the threshold; a record with a missing load is Off-Peak.
C10_PeakByThreshold ==
  Completed("peak") =>
    /\ peak_threshold = Percentile75(BagLoads)
    /\ Len(Peak_Type) = Len(Load)
    /\ \A i \in 1..Len(Load) :
         /\ Peak_Type[i] \in {"Peak", "Off-Peak"}
         /\ Peak_Type[i] = "Peak" <=>
              (IsNum(Load[i]) /\ ~FLt(Load[i], peak_threshold))
         /\ IsNaN(Load[i]) => Peak_Type[i] = "Off-Peak"

\* A finished table from rows that are not in time order, with a load equal to
\* the threshold classified Peak, a smaller load and a missing load Off-Peak.
C10_Witness ==
  /\ pc = "done"
  /\ \E a, b \in 1..Len(df_index) : a < b /\ df_index[a] > df_index[b]
  /\ \E i \in 1..Len(Load) : Load[i] = peak_threshold /\ Peak_Type[i] = "Peak"
  /\ \E i \in 1..Len(Load) : IsNaN(Load[i]) /\ Peak_Type[i] = "Off-Peak"

====
